---- MODULE Spec2Model ----
(***************************************************************************)
(* Model of gpd-fan.c, the GPD Win 4 (7840U / 8840U) fan control driver.   *)
(*                                                                         *)
(* State: the static fan_data, the mutex ec_lock, the embedded controller  *)
(* behind the two I/O ports, and one program counter with locals for every *)
(* thread that may be inside fan_read, fan_write, gpd_probe or gpd_remove. *)
(* The device is bound once per load of the module (gpd_init) and unbound  *)
(* when the module is removed (gpd_exit).                                  *)
(* Every plain load or store of fan_data and every port access is a step   *)
(* of its own, so that concurrent callers interleave as they do on the     *)
(* machine.                                                                *)
(***************************************************************************)
EXTENDS Integers, Naturals, Sequences, FiniteSets, TLC

(* ------------------------------ bounds -------------------------------- *)

\* number of threads that call the hwmon callbacks concurrently
NumCallers == 2

\* the tachometer registers return the bytes 0 .. MaxTach and 255
MaxTach == 0

(* --------------------------- program constants ------------------------ *)

EC_ADDR_PORT == 78
EC_DATA_PORT == 79

REG_MANUAL_ENABLE == 629
REG_RPM_HIGH == 536
REG_RPM_LOW == 537
REG_PWM == 6153
PWM_MAX_VAL == 184

EINVAL == 22

\* owner field of an unlocked mutex
Unlocked == 0

Callers == 1 .. NumCallers

\* the driver-core thread that binds and unbinds the platform device
Core == NumCallers + 1

Threads == Callers \cup {Core}

U8(x) == x % 256

(* ------------------------- pure functions ----------------------------- *)

\* DIV_ROUND_CLOSEST(x, d) of linux/math.h for int operands: both
\* operands are signed, so the sign test of the macro is evaluated
DIV_ROUND_CLOSEST(x, d) ==
    IF (x > 0) = (d > 0)
    THEN (x + (d \div 2)) \div d
    ELSE -(((d \div 2) - x) \div d)

scale_pwm_no_offset(val) ==
    IF val >= 255 THEN PWM_MAX_VAL
    ELSE U8(DIV_ROUND_CLOSEST(val * PWM_MAX_VAL, 255))

\* lines 78-83
scale_pwm(val) ==
    IF val >= 255 THEN PWM_MAX_VAL
    ELSE IF val = 0 THEN 1
    ELSE U8(1 + DIV_ROUND_CLOSEST(val * (PWM_MAX_VAL - 1), 255))

(* ------------------------ the EC behind the ports --------------------- *)

\* One port access: dir "out" writes byte v to the port, "in" reads it.
Out(v, port) == [dir |-> "out", port |-> port, v |-> v]
In(port) == [dir |-> "in", port |-> port, v |-> 0]

\* the twelve port accesses of ec_write(addr, val), in program order
ec_write(addr, val) ==
    << Out(46, EC_ADDR_PORT), Out(17, EC_DATA_PORT),
       Out(47, EC_ADDR_PORT), Out(addr \div 256, EC_DATA_PORT),
       Out(46, EC_ADDR_PORT), Out(16, EC_DATA_PORT),
       Out(47, EC_ADDR_PORT), Out(addr % 256, EC_DATA_PORT),
       Out(46, EC_ADDR_PORT), Out(18, EC_DATA_PORT),
       Out(47, EC_ADDR_PORT), Out(val, EC_DATA_PORT) >>

\* the twelve port accesses of ec_read(addr), in program order
ec_read(addr) ==
    << Out(46, EC_ADDR_PORT), Out(17, EC_DATA_PORT),
       Out(47, EC_ADDR_PORT), Out(addr \div 256, EC_DATA_PORT),
       Out(46, EC_ADDR_PORT), Out(16, EC_DATA_PORT),
       Out(47, EC_ADDR_PORT), Out(addr % 256, EC_DATA_PORT),
       Out(46, EC_ADDR_PORT), Out(18, EC_DATA_PORT),
       Out(47, EC_ADDR_PORT), In(EC_DATA_PORT) >>

SeqLen == Len(ec_write(REG_PWM, 1))

\* the registers of EC RAM the driver writes
RamRegs == {REG_PWM, REG_MANUAL_ENABLE}

\* the tachometer registers: read-only, driven by the fan
TachRegs == {REG_RPM_HIGH, REG_RPM_LOW}

\* bytes a tachometer register returns in the runs with concurrent callers
TachBytes == (0 .. MaxTach) \cup {255}

\* every byte
AllBytes == 0 .. 255

\* address the EC's pointer registers select
EcAddr(chip) == chip.hi * 256 + chip.lo

\* State of the EC after outb(v, port).  The byte written to the address
\* port is the index; a data write at index 0x2E selects one of the EC's
\* internal registers (0x11 address high, 0x10 address low, 0x12 data) and
\* a data write at index 0x2F stores into the selected one.  last_pwm
\* remembers the last byte stored into REG_PWM through the ports.
outb(chip, v, port) ==
    IF port = EC_ADDR_PORT THEN [chip EXCEPT !.index = v]
    ELSE IF chip.index = 46 THEN [chip EXCEPT !.sel = v]
    ELSE IF chip.index # 47 THEN chip
    ELSE IF chip.sel = 17 THEN [chip EXCEPT !.hi = v]
    ELSE IF chip.sel = 16 THEN [chip EXCEPT !.lo = v]
    ELSE IF chip.sel = 18 /\ EcAddr(chip) = REG_PWM
         THEN [chip EXCEPT !.ram[REG_PWM] = v, !.last_pwm = v]
    ELSE IF chip.sel = 18 /\ EcAddr(chip) \in RamRegs
         THEN [chip EXCEPT !.ram[EcAddr(chip)] = v]
    ELSE chip

\* the bytes inb(port) can return in this state of the EC; chip.tach are
\* the bytes the fan's tachometer may present
inb(chip, port) ==
    IF port = EC_DATA_PORT /\ chip.index = 47 /\ chip.sel = 18
    THEN IF EcAddr(chip) \in RamRegs THEN {chip.ram[EcAddr(chip)]}
         ELSE IF EcAddr(chip) \in TachRegs THEN chip.tach
         ELSE {0}
    ELSE IF port = EC_DATA_PORT /\ chip.index = 47 /\ chip.sel = 17
         THEN {chip.hi}
    ELSE IF port = EC_DATA_PORT /\ chip.index = 47 /\ chip.sel = 16
         THEN {chip.lo}
    ELSE {0}

\* the EC after the accesses i .. j of a port sequence (an inb leaves it
\* as it is)
RECURSIVE EcAfter(_, _, _, _)
EcAfter(chip, s, i, j) ==
    IF i > j THEN chip
    ELSE CHOOSE r \in {EcAfter(c, s, i + 1, j) :
                          c \in {IF s[i].dir = "out"
                                 THEN outb(chip, s[i].v, s[i].port)
                                 ELSE chip}} : TRUE

(* ------------------------------- state -------------------------------- *)

VARIABLES
    fan_data,      \* [pwm_value, manual_mode], the static struct
    ec_lock,       \* owner of the mutex, Unlocked when free
    ec,            \* the EC: index, sel, hi, lo, ram, tach, last_pwm
    dev,           \* "loaded", "bound", "removing", "removed", "unloaded"
    pc,            \* pc[t]: where thread t is
    op,            \* op[t]: [fn, attr, val] of the call t is in and old,
                   \* fan_data and the EC RAM when it was entered (history,
                   \* kept in serial runs)
    loc,           \* loc[t]: [pwm_255, scaled, k, hi, lo] locals of t and
                   \* log, what t did with ec_lock and the EC registers in
                   \* the call it is in (history)
    ret,           \* what the step just taken returned to its caller
    run,           \* [serial, ports, history, calls]: the kind of run
    bus,           \* [who, k]: the port sequence in progress (history)
    session,       \* history of the current binding, kept in the runs
                   \* with run.history: manual0, the
                   \* manual-enable register when gpd_probe ran, late,
                   \* a callback was entered after gpd_remove began, and
                   \* duty, the last valid value written to pwm1 (-1: none)
    hist,          \* the last call that returned and may have changed
                   \* the state (fan_write with 0, gpd_remove), if any;
                   \* kept in serial runs
    sc             \* [a, b, ra, rb]: two arguments of scale_pwm and, once
                   \* it was applied to them, its results

vars == << fan_data, ec_lock, ec, dev, pc, op, loc, ret, run,
           bus, session, hist, sc >>

\* duties written in the concurrent runs
DutySamples == {0, 128}

\* values written to pwm1_enable, valid and invalid
EnableInputs == {-1, 0, 1, 2}

\* invalid values written to pwm1
BadDuties == {-1, 256}

Call(fn, attr, val) == [fn |-> fn, attr |-> attr, val |-> val]

\* the reads the hwmon core dispatches to fan_read
Reads == {Call("fan_read", a, 0) : a \in {"fan_input", "pwm_enable", "pwm_input"}}

\* writes of the values E to pwm1_enable and of the values D to pwm1
Writes(E, D) ==
    {Call("fan_write", "pwm_enable", v) : v \in E}
        \cup {Call("fan_write", "pwm_input", v) : v \in D}

\* PWM register contents the firmware may have left before the driver loads
FirmwarePwm == {0}

\* the static initialiser of fan_data, lines 37-40
fan_data_init == [pwm_value |-> 255, manual_mode |-> FALSE]

\* the entry state of a call when none is kept
NoOld == [fan_data |-> fan_data_init, ram |-> [r \in RamRegs |-> 0]]

NoOp == [fn |-> "none", attr |-> "none", val |-> 0, old |-> NoOld]
NoLoc == [pwm_255 |-> 0, scaled |-> 0, k |-> 0, hi |-> 0, lo |-> 0,
          log |-> << >>]

\* no call returned in the step just taken
NoRet == [who |-> Unlocked, fn |-> "none", attr |-> "none", arg |-> 0,
          rc |-> 0, val |-> 0, old |-> NoOld, log |-> << >>]

\* entries of a thread's log: ec_lock taken, ec_lock released, a register
\* read or written
LockMark == [dir |-> "lock", reg |-> 0, v |-> 0]
UnlockMark == [dir |-> "unlock", reg |-> 0, v |-> 0]
Access(dir, reg, v) == [dir |-> dir, reg |-> reg, v |-> v]

\* the state when the module has been loaded; the EC is under firmware
\* control (manual-enable 0) with PWM register p, and the tachometer
\* presents the bytes T
InitCommon(P, T) ==
    /\ fan_data = fan_data_init
    /\ ec_lock = Unlocked
    /\ \E p \in P :
         ec = [index |-> 0, sel |-> 0, hi |-> 0, lo |-> 0,
               ram |-> [r \in RamRegs |-> IF r = REG_PWM THEN p ELSE 0],
               tach |-> T, last_pwm |-> -1]
    /\ dev = "loaded"
    /\ pc = [t \in Threads |-> "idle"]
    /\ op = [t \in Threads |-> NoOp]
    /\ loc = [t \in Threads |-> NoLoc]
    /\ ret = NoRet
    /\ bus = [who |-> Unlocked, k |-> 0]
    /\ session = [manual0 |-> 0, late |-> FALSE, duty |-> -1]
    /\ hist = << >>
    /\ sc = [a |-> 0, b |-> 0, ra |-> -1, rb |-> -1]

\* callers overlap freely; an EC register access is one step
Init ==
    /\ InitCommon(FirmwarePwm, TachBytes)
    /\ \E d \in DutySamples :
         run = [serial |-> FALSE, ports |-> FALSE, history |-> TRUE,
                calls |-> Reads \cup Writes({0, 1, 2}, {d, 256})]

\* callers overlap freely and make every kind of valid call; an EC
\* register access is one step
InitFair ==
    /\ InitCommon(FirmwarePwm, {0})
    /\ run = [serial |-> FALSE, ports |-> FALSE, history |-> FALSE,
              calls |-> Reads \cup Writes({0, 1}, {255})]

\* callers overlap freely; every port access is a step
InitPorts ==
    /\ InitCommon(FirmwarePwm, TachBytes)
    /\ run = [serial |-> FALSE, ports |-> TRUE, history |-> TRUE,
              calls |-> Reads \cup Writes({0, 1, 2}, {128, 256})]

\* calls are issued one at a time; a run writes one duty of 0..255
InitSerial ==
    /\ InitCommon(FirmwarePwm, TachBytes)
    /\ \E d \in 0 .. 255 :
         run = [serial |-> TRUE, ports |-> FALSE, history |-> TRUE,
                calls |-> Reads \cup Writes(EnableInputs, {d} \cup BadDuties)]

\* scale_pwm alone: any two duties
InitScale ==
    /\ fan_data = fan_data_init
    /\ ec_lock = Unlocked
    /\ ec = [index |-> 0, sel |-> 0, hi |-> 0, lo |-> 0,
             ram |-> [r \in RamRegs |-> 0], tach |-> TachBytes,
             last_pwm |-> -1]
    /\ dev = "loaded"
    /\ pc = [t \in Threads |-> "idle"]
    /\ op = [t \in Threads |-> NoOp]
    /\ loc = [t \in Threads |-> NoLoc]
    /\ ret = NoRet
    /\ bus = [who |-> Unlocked, k |-> 0]
    /\ session = [manual0 |-> 0, late |-> FALSE, duty |-> -1]
    /\ hist = << >>
    /\ run = [serial |-> TRUE, ports |-> FALSE, history |-> TRUE,
              calls |-> {}]
    /\ \E a \in 0 .. 255, b \in 0 .. 255 :
         sc = [a |-> a, b |-> b, ra |-> -1, rb |-> -1]

\* read_rpm alone, on a bound device in Auto or, after pwm1_enable = 1,
\* in Manual: the tachometer presents any bytes, calls are issued one at a
\* time, every port access is a step
InitRpm ==
    /\ ec_lock = Unlocked
    /\ LET fresh == [index |-> 0, sel |-> 0, hi |-> 0, lo |-> 0,
                     ram |-> [r \in RamRegs |-> 0], tach |-> AllBytes,
                     last_pwm |-> -1]
           enable == ec_write(REG_PWM, scale_pwm(fan_data_init.pwm_value))
                         \o ec_write(REG_MANUAL_ENABLE, 1)
       IN \/ /\ fan_data = fan_data_init
             /\ ec = fresh
             /\ hist = << >>
          \/ /\ fan_data = [fan_data_init EXCEPT !.manual_mode = TRUE]
             /\ ec = EcAfter(fresh, enable, 1, Len(enable))
             /\ hist = << [attr |-> "pwm_enable", val |-> 1] >>
    /\ dev = "bound"
    /\ pc = [t \in Threads |-> "idle"]
    /\ op = [t \in Threads |-> NoOp]
    /\ loc = [t \in Threads |-> NoLoc]
    /\ ret = NoRet
    /\ bus = [who |-> Unlocked, k |-> 0]
    /\ session = [manual0 |-> 0, late |-> FALSE, duty |-> -1]
    /\ sc = [a |-> 0, b |-> 0, ra |-> -1, rb |-> -1]
    /\ run = [serial |-> TRUE, ports |-> TRUE, history |-> TRUE,
              calls |-> {Call("fan_read", "fan_input", 0)}]

(* ------------------------------ helpers ------------------------------- *)

Quiescent == \A t \in Threads : pc[t] = "idle"

\* the hwmon device exists from probe until devres releases it
Registered == dev \in {"bound", "removing", "removed"}

\* fan_data and the EC RAM now, for a call that is entered (serial runs)
Snapshot ==
    IF run.serial THEN [fan_data |-> fan_data, ram |-> ec.ram] ELSE NoOld

\* the history of the binding becomes h
Recorded(h) == session' = IF run.history THEN h ELSE session

\* the call c of run.calls, entered now
Entered(c) == [fn |-> c.fn, attr |-> c.attr, val |-> c.val, old |-> Snapshot]

\* the call o of thread t returns rc with *val = v, having done log
ReturnOf(t, o, rc, v, log) ==
    /\ ret' = [who |-> t, fn |-> o.fn, attr |-> o.attr, arg |-> o.val,
               rc |-> rc, val |-> v, old |-> o.old, log |-> log]
    /\ hist' = IF run.serial /\ o.fn \in {"fan_write", "gpd_remove"} /\ rc = 0
               THEN << [attr |-> o.attr, val |-> o.val] >>
               ELSE hist

\* thread t returns rc with *val = v from the call it is in, having
\* done log
ReturnLogged(t, rc, v, log) ==
    /\ pc' = [pc EXCEPT ![t] = "idle"]
    /\ loc' = [loc EXCEPT ![t] = NoLoc]
    /\ op' = [op EXCEPT ![t] = NoOp]
    /\ ReturnOf(t, op[t], rc, v, log)

\* thread t returns rc with *val = v from the call it is in
Return(t, rc, v) == ReturnLogged(t, rc, v, loc[t].log)

\* thread t adds entry e to its log
Logged(t, e) == loc' = [loc EXCEPT ![t].log = Append(@, e)]

\* thread t goes on inside its call
Goto(t, label) ==
    /\ pc' = [pc EXCEPT ![t] = label]
    /\ ret' = NoRet
    /\ hist' = hist

mutex_lock_nonexclusive(t) == ec_lock' = t

mutex_lock(t) == ec_lock = Unlocked /\ ec_lock' = t

mutex_unlock(t) == ec_lock' = Unlocked

\* line 137
current_mode_report == IF fan_data.manual_mode THEN 1 ELSE 0

\* line 141
current_pwm_report == IF fan_data.manual_mode THEN fan_data.pwm_value ELSE 0

\* line 155
enable_invalid(val) == val < 0 \/ val > 1

pwm_invalid_no_upper(val) == val < 0

\* line 167
pwm_invalid(val) == val < 0 \/ val > 255

(* ------------------------- entering a callback ------------------------ *)

\* a call may start now: the hwmon device exists and, in a serial run,
\* no other call is in progress
MayCall(t) ==
    /\ pc[t] = "idle"
    /\ Registered
    /\ run.serial => Quiescent

Enter(t, fn, attr, val, label) ==
    /\ op' = [op EXCEPT ![t] = Entered(Call(fn, attr, val))]
    /\ Goto(t, label)
    /\ UNCHANGED loc

(* ------------------------------ fan_read ------------------------------ *)

\* the hwmon core calls fan_read for fan1_input, pwm1_enable or pwm1;
\* lines 131-140 dispatch on the attribute
fan_read(t) ==
    /\ t \in Callers
    /\ MayCall(t)
    /\ \E c \in run.calls :
         /\ c.fn = "fan_read"
         /\ \/ c.attr = "fan_input" /\ Enter(t, c.fn, c.attr, 0, "rr_lock")
            \/ c.attr = "pwm_enable" /\ Enter(t, c.fn, c.attr, 0, "fr_enable")
            \/ c.attr = "pwm_input" /\ Enter(t, c.fn, c.attr, 0, "fr_input")
    /\ Recorded([session EXCEPT !.late = @ \/ dev # "bound"])
    /\ UNCHANGED << fan_data, ec_lock, ec, dev, run, sc, bus >>

\* line 137: *val = fan_data.manual_mode ? 1 : 0
fan_read_enable(t) ==
    /\ pc[t] = "fr_enable"
    /\ Return(t, 0, current_mode_report)
    /\ UNCHANGED << fan_data, ec_lock, ec, dev, run, sc, bus, session >>

\* line 141, the load of fan_data.manual_mode
fan_read_input(t) ==
    /\ pc[t] = "fr_input"
    /\ \/ /\ fan_data.manual_mode
          /\ Goto(t, "fr_load_pwm")
          /\ UNCHANGED << op, loc >>
       \/ /\ ~fan_data.manual_mode
          /\ Return(t, 0, 0)
    /\ UNCHANGED << fan_data, ec_lock, ec, dev, run, sc, bus, session >>

\* line 141, the load of fan_data.pwm_value
fan_read_pwm_value(t) ==
    /\ pc[t] = "fr_load_pwm"
    /\ Return(t, 0, fan_data.pwm_value)
    /\ UNCHANGED << fan_data, ec_lock, ec, dev, run, sc, bus, session >>

(* ------------------------------ read_rpm ------------------------------ *)

read_rpm_lock_missing(t) ==
    /\ pc[t] = "rr_lock"
    /\ \E first \in {"rr_hi1", "rr_lo1"} : Goto(t, first)
    /\ UNCHANGED << fan_data, ec_lock, ec, dev, op, loc, run, sc, bus,
                    session >>

\* line 89; the two ec_read calls of line 90 are operands of one |, so the
\* compiler is free to call either first
read_rpm_lock(t) ==
    /\ pc[t] = "rr_lock"
    /\ mutex_lock(t)
    /\ Logged(t, LockMark)
    /\ \E first \in {"rr_hi1", "rr_lo1"} : Goto(t, first)
    /\ UNCHANGED << fan_data, ec, dev, op, run, sc, bus, session >>

read_rpm_unlock_low_byte(t) ==
    /\ pc[t] = "rr_unlock"
    /\ mutex_unlock(t)
    /\ ReturnLogged(t, 0, U8(loc[t].hi * 256 + loc[t].lo),
                    Append(loc[t].log, UnlockMark))
    /\ UNCHANGED << fan_data, ec, dev, run, sc, bus, session >>

\* lines 90-92: combine the bytes into the u16, unlock, return
read_rpm_unlock(t) ==
    /\ pc[t] = "rr_unlock"
    /\ mutex_unlock(t)
    /\ ReturnLogged(t, 0, (loc[t].hi * 256 + loc[t].lo) % 65536,
                    Append(loc[t].log, UnlockMark))
    /\ UNCHANGED << fan_data, ec, dev, run, sc, bus, session >>

(* ------------------------------ fan_write ----------------------------- *)

\* the hwmon core calls fan_write for pwm1_enable or pwm1 with any long;
\* lines 151-168 dispatch on the attribute and check the range
fan_write(t) ==
    /\ t \in Callers
    /\ MayCall(t)
    /\ \E c \in run.calls :
         /\ c.fn = "fan_write"
         /\ \/ /\ c.attr = "pwm_enable"
               /\ enable_invalid(c.val)
               /\ ReturnOf(t, Entered(c), -EINVAL, 0, << >>)
               /\ UNCHANGED << pc, op, loc >>
            \/ /\ c.attr = "pwm_enable"
               /\ ~enable_invalid(c.val)
               /\ c.val = 1
               /\ Enter(t, c.fn, c.attr, c.val, "fw_set_manual")
            \/ /\ c.attr = "pwm_enable"
               /\ ~enable_invalid(c.val)
               /\ c.val # 1
               /\ Enter(t, c.fn, c.attr, c.val, "sa_lock")
            \/ /\ c.attr = "pwm_input"
               /\ pwm_invalid(c.val)
               /\ ReturnOf(t, Entered(c), -EINVAL, 0, << >>)
               /\ UNCHANGED << pc, op, loc >>
            \/ /\ c.attr = "pwm_input"
               /\ ~pwm_invalid(c.val)
               /\ Enter(t, c.fn, c.attr, c.val, "fw_store_pwm")
         /\ Recorded([session EXCEPT
                          !.late = @ \/ dev # "bound",
                          !.duty = IF c.attr = "pwm_input" /\ ~pwm_invalid(c.val)
                                   THEN c.val ELSE @])
    /\ UNCHANGED << fan_data, ec_lock, ec, dev, run, sc, bus >>

fan_write_set_manual_once(t) ==
    /\ pc[t] = "fw_set_manual"
    /\ \/ /\ fan_data.manual_mode
          /\ Return(t, 0, 0)
          /\ UNCHANGED fan_data
       \/ /\ ~fan_data.manual_mode
          /\ fan_data' = [fan_data EXCEPT !.manual_mode = TRUE]
          /\ Goto(t, "fw_load_pwm")
          /\ UNCHANGED << op, loc >>
    /\ UNCHANGED << ec_lock, ec, dev, run, sc, bus, session >>

\* line 158: fan_data.manual_mode = true
fan_write_set_manual(t) ==
    /\ pc[t] = "fw_set_manual"
    /\ fan_data' = [fan_data EXCEPT !.manual_mode = TRUE]
    /\ Goto(t, "fw_load_pwm")
    /\ UNCHANGED << ec_lock, ec, dev, op, loc, run, sc, bus, session >>

\* entry of set_fan_speed(pwm_255), line 98: scaled = scale_pwm(pwm_255)
set_fan_speed(t, pwm_255) ==
    /\ loc' = [loc EXCEPT ![t].pwm_255 = U8(pwm_255),
                          ![t].scaled = scale_pwm(U8(pwm_255))]
    /\ Goto(t, "sfs_lock")

fan_write_apply_default(t) ==
    /\ pc[t] = "fw_load_pwm"
    /\ set_fan_speed(t, fan_data_init.pwm_value)
    /\ UNCHANGED << fan_data, ec_lock, ec, dev, op, run, sc, bus, session >>

\* line 159: load fan_data.pwm_value and call set_fan_speed with it
fan_write_apply_current(t) ==
    /\ pc[t] = "fw_load_pwm"
    /\ set_fan_speed(t, fan_data.pwm_value)
    /\ UNCHANGED << fan_data, ec_lock, ec, dev, op, run, sc, bus, session >>

fan_write_store_pwm_in_manual_only(t) ==
    /\ pc[t] = "fw_store_pwm"
    /\ fan_data' = IF fan_data.manual_mode
                   THEN [fan_data EXCEPT !.pwm_value = U8(op[t].val)]
                   ELSE fan_data
    /\ Goto(t, "fw_test_mode")
    /\ UNCHANGED << ec_lock, ec, dev, op, loc, run, sc, bus, session >>

\* line 169: fan_data.pwm_value = val
fan_write_store_pwm(t) ==
    /\ pc[t] = "fw_store_pwm"
    /\ fan_data' = [fan_data EXCEPT !.pwm_value = U8(op[t].val)]
    /\ Goto(t, "fw_test_mode")
    /\ UNCHANGED << ec_lock, ec, dev, op, loc, run, sc, bus, session >>

fan_write_test_mode_ignored(t) ==
    /\ pc[t] = "fw_test_mode"
    /\ set_fan_speed(t, op[t].val)
    /\ UNCHANGED << fan_data, ec_lock, ec, dev, op, run, sc, bus, session >>

\* lines 170-172: if (fan_data.manual_mode) set_fan_speed(val); return 0
fan_write_test_mode(t) ==
    /\ pc[t] = "fw_test_mode"
    /\ \/ /\ fan_data.manual_mode
          /\ set_fan_speed(t, op[t].val)
          /\ UNCHANGED op
       \/ /\ ~fan_data.manual_mode
          /\ Return(t, 0, 0)
    /\ UNCHANGED << fan_data, ec_lock, ec, dev, run, sc, bus, session >>

(* ---------------------------- set_fan_speed --------------------------- *)

\* line 99
set_fan_speed_lock(t) ==
    /\ pc[t] = "sfs_lock"
    /\ mutex_lock(t)
    /\ Logged(t, LockMark)
    /\ Goto(t, "sfs_pwm")
    /\ UNCHANGED << fan_data, ec, dev, op, run, sc, bus, session >>

set_fan_speed_unlock_missing(t) ==
    /\ pc[t] = "sfs_unlock"
    /\ Goto(t, "sfs_store")
    /\ UNCHANGED << fan_data, ec_lock, ec, dev, op, loc, run, sc, bus,
                    session >>

\* line 102
set_fan_speed_unlock(t) ==
    /\ pc[t] = "sfs_unlock"
    /\ mutex_unlock(t)
    /\ Logged(t, UnlockMark)
    /\ Goto(t, "sfs_store")
    /\ UNCHANGED << fan_data, ec, dev, op, run, sc, bus, session >>

\* line 103: fan_data.pwm_value = pwm_255; back in fan_write, return 0
set_fan_speed_store(t) ==
    /\ pc[t] = "sfs_store"
    /\ fan_data' = [fan_data EXCEPT !.pwm_value = loc[t].pwm_255]
    /\ Return(t, 0, 0)
    /\ UNCHANGED << ec_lock, ec, dev, run, sc, bus, session >>

(* ---------------------------- set_auto_mode --------------------------- *)

\* line 109
set_auto_mode_lock(t) ==
    /\ pc[t] = "sa_lock"
    /\ mutex_lock(t)
    /\ Logged(t, LockMark)
    /\ Goto(t, "sa_write")
    /\ UNCHANGED << fan_data, ec, dev, op, run, sc, bus, session >>

\* line 111
set_auto_mode_unlock(t) ==
    /\ pc[t] = "sa_unlock"
    /\ mutex_unlock(t)
    /\ Logged(t, UnlockMark)
    /\ Goto(t, "sa_store")
    /\ UNCHANGED << fan_data, ec, dev, op, run, sc, bus, session >>

set_auto_mode_store_resets_duty(t) ==
    /\ pc[t] = "sa_store"
    /\ fan_data' = fan_data_init
    /\ Return(t, 0, 0)
    /\ dev' = IF op[t].fn = "gpd_remove" THEN "removed" ELSE dev
    /\ UNCHANGED << ec_lock, ec, run, sc, bus, session >>

\* line 112: fan_data.manual_mode = false; then the caller returns:
\* fan_write returns 0 (line 163), gpd_remove returns (line 226)
set_auto_mode_store(t) ==
    /\ pc[t] = "sa_store"
    /\ fan_data' = [fan_data EXCEPT !.manual_mode = FALSE]
    /\ Return(t, 0, 0)
    /\ dev' = IF op[t].fn = "gpd_remove" THEN "removed" ELSE dev
    /\ UNCHANGED << ec_lock, ec, run, sc, bus, session >>

(* ----------------------- ec_read / ec_write steps --------------------- *)

\* labels at which a thread is inside ec_read or ec_write
EcLabels == {"sfs_pwm", "sfs_en", "sa_write",
             "rr_hi1", "rr_lo2", "rr_lo1", "rr_hi2"}

set_fan_speed_pwm_unscaled(t) == ec_write(REG_PWM, loc[t].pwm_255)

\* line 100
set_fan_speed_pwm(t) == ec_write(REG_PWM, loc[t].scaled)

set_fan_speed_enable_zero == ec_write(REG_MANUAL_ENABLE, 0)

\* line 101
set_fan_speed_enable == ec_write(REG_MANUAL_ENABLE, 1)

set_auto_mode_write_one == ec_write(REG_MANUAL_ENABLE, 1)

\* line 110
set_auto_mode_write == ec_write(REG_MANUAL_ENABLE, 0)

CurSeq_enable_first(t) ==
    CASE pc[t] = "sfs_pwm" -> set_fan_speed_enable
      [] pc[t] = "sfs_en" -> set_fan_speed_pwm(t)
      [] pc[t] = "sa_write" -> set_auto_mode_write
      [] pc[t] \in {"rr_hi1", "rr_hi2"} -> ec_read(REG_RPM_HIGH)
      [] pc[t] \in {"rr_lo1", "rr_lo2"} -> ec_read(REG_RPM_LOW)

\* the port sequence thread t is executing
CurSeq(t) ==
    CASE pc[t] = "sfs_pwm" -> set_fan_speed_pwm(t)
      [] pc[t] = "sfs_en" -> set_fan_speed_enable
      [] pc[t] = "sa_write" -> set_auto_mode_write
      [] pc[t] \in {"rr_hi1", "rr_hi2"} -> ec_read(REG_RPM_HIGH)
      [] pc[t] \in {"rr_lo1", "rr_lo2"} -> ec_read(REG_RPM_LOW)

\* where the caller continues when the sequence at this label is complete
AfterSeq(label) ==
    CASE label = "sfs_pwm" -> "sfs_en"
      [] label = "sfs_en" -> "sfs_unlock"
      [] label = "sa_write" -> "sa_unlock"
      [] label = "rr_hi1" -> "rr_lo2"
      [] label = "rr_lo1" -> "rr_hi2"
      [] label \in {"rr_lo2", "rr_hi2"} -> "rr_unlock"

\* The next port access of ec_write / ec_read (lines 45-56, 62-73).  In a
\* run that does not follow the single port accesses, the accesses of one
\* register access are made in one step.
port_access(t) ==
    /\ pc[t] \in EcLabels
    /\ LET s == CurSeq(t)
           k == IF run.ports THEN loc[t].k + 1 ELSE SeqLen
           chip == EcAfter(ec, s, loc[t].k + 1, k - 1)
           a == s[k]
           nk == IF k = SeqLen THEN 0 ELSE k
           log(b) == IF k = SeqLen
                     THEN Append(loc[t].log, Access(a.dir, EcAddr(chip), b))
                     ELSE loc[t].log
       IN /\ \/ /\ a.dir = "out"
                /\ ec' = outb(chip, a.v, a.port)
                /\ loc' = [loc EXCEPT ![t].k = nk, ![t].log = log(a.v)]
             \/ /\ a.dir = "in"
                /\ ec' = chip
                /\ \E b \in inb(chip, a.port) :
                     loc' = IF pc[t] \in {"rr_hi1", "rr_hi2"}
                            THEN [loc EXCEPT ![t].k = nk, ![t].hi = b,
                                             ![t].log = log(b)]
                            ELSE [loc EXCEPT ![t].k = nk, ![t].lo = b,
                                             ![t].log = log(b)]
          /\ bus' = IF k = SeqLen THEN [who |-> Unlocked, k |-> 0]
                    ELSE [who |-> t, k |-> k]
          /\ Goto(t, IF k = SeqLen THEN AfterSeq(pc[t]) ELSE pc[t])
    /\ UNCHANGED << fan_data, ec_lock, dev, op, run, sc, session >>

(* --------------------- binding and unbinding the device --------------- *)

\* gpd_init, lines 238-252: platform_create_bundle creates the device,
\* registers the driver and probes it once; lines 207-221, the successful
\* path, register the hwmon device.  The bundle's driver has no bind
\* attributes and refuses later probes, so there is one probe per load.
\* gpd_probe does not assign fan_data.
gpd_probe(t) ==
    /\ t = Core
    /\ pc[t] = "idle"
    /\ dev = "loaded"
    /\ dev' = "bound"
    /\ Recorded([manual0 |-> ec.ram[REG_MANUAL_ENABLE], late |-> FALSE,
                 duty |-> -1])
    /\ hist' = << >>
    /\ ret' = [NoRet EXCEPT !.who = t, !.fn = "gpd_probe"]
    /\ UNCHANGED << fan_data, ec_lock, ec, pc, op, loc, run, sc, bus >>

\* gpd_exit, line 256, unregisters the device: the driver core calls
\* gpd_remove, lines 223-226, which calls set_auto_mode
gpd_remove(t) ==
    /\ t = Core
    /\ pc[t] = "idle"
    /\ dev = "bound"
    /\ run.serial => Quiescent
    /\ dev' = "removing"
    /\ Enter(t, "gpd_remove", "none", 0, "sa_lock")
    /\ UNCHANGED << fan_data, ec_lock, ec, run, sc, bus, session >>

\* after gpd_remove returned, devres unregisters the hwmon device of
\* line 214, which waits for the callbacks in progress; gpd_exit then
\* unregisters the driver (line 257) and the module is unloaded
devres_release(t) ==
    /\ t = Core
    /\ dev = "removed"
    /\ \A u \in Callers : pc[u] = "idle"
    /\ dev' = "unloaded"
    /\ ret' = NoRet
    /\ UNCHANGED << fan_data, ec_lock, ec, pc, op, loc, run, sc,
                    bus, session, hist >>

module_load_keeps_data(t) ==
    /\ t = Core
    /\ dev = "unloaded"
    /\ dev' = "loaded"
    /\ ret' = NoRet
    /\ UNCHANGED << fan_data, ec_lock, ec, pc, op, loc, run, sc,
                    bus, session, hist >>

\* the module is loaded again: its static data, lines 30-40, have their
\* initialisers; the EC keeps its registers
module_load(t) ==
    /\ t = Core
    /\ dev = "unloaded"
    /\ dev' = "loaded"
    /\ fan_data' = fan_data_init
    /\ ec_lock' = Unlocked
    /\ ret' = NoRet
    /\ UNCHANGED << ec, pc, op, loc, run, sc, bus, session, hist >>

(* --------------------------- specifications --------------------------- *)

Step(t) ==
    \/ fan_read(t)
    \/ fan_read_enable(t)
    \/ fan_read_input(t)
    \/ fan_read_pwm_value(t)
    \/ read_rpm_lock(t)
    \/ read_rpm_unlock(t)
    \/ fan_write(t)
    \/ fan_write_set_manual(t)
    \/ fan_write_apply_current(t)
    \/ fan_write_store_pwm(t)
    \/ fan_write_test_mode(t)
    \/ set_fan_speed_lock(t)
    \/ set_fan_speed_unlock(t)
    \/ set_fan_speed_store(t)
    \/ set_auto_mode_lock(t)
    \/ set_auto_mode_unlock(t)
    \/ set_auto_mode_store(t)
    \/ port_access(t)
    \/ gpd_probe(t)
    \/ gpd_remove(t)
    \/ devres_release(t)
    \/ module_load(t)

Next == \E t \in Threads : Step(t)

\* concurrent callers, one step per EC register access
Spec == Init /\ [][Next]_vars

\* concurrent callers, one step per port access
SpecPorts == InitPorts /\ [][Next]_vars

\* calls issued one at a time
SpecSerial == InitSerial /\ [][Next]_vars

\* thread t takes ec_lock
Acquire(t) ==
    \/ read_rpm_lock(t)
    \/ set_fan_speed_lock(t)
    \/ set_auto_mode_lock(t)

\* thread t takes the next step of the call it is in, other than taking
\* ec_lock
Proceed(t) ==
    \/ fan_read_enable(t)
    \/ fan_read_input(t)
    \/ fan_read_pwm_value(t)
    \/ read_rpm_unlock(t)
    \/ fan_write_set_manual(t)
    \/ fan_write_apply_current(t)
    \/ fan_write_store_pwm(t)
    \/ fan_write_test_mode(t)
    \/ set_fan_speed_unlock(t)
    \/ set_fan_speed_store(t)
    \/ set_auto_mode_unlock(t)
    \/ set_auto_mode_store(t)
    \/ port_access(t)

\* thread t takes the next step of the call it is in
Continue(t) == Proceed(t) \/ Acquire(t)

\* Concurrent callers under a fair scheduler: a thread inside a call is
\* eventually run, and a thread that waits for ec_lock eventually gets it
\* if the lock is released again and again (the mutex queues its waiters).
\* A step other than taking ec_lock stays enabled until it is taken, so
\* strong fairness asks no more of it than weak fairness.  Nothing obliges
\* a caller to start a call.
SpecFair ==
    /\ InitFair
    /\ [][Next]_vars
    /\ \A t \in Threads : SF_vars(Continue(t))

\* fan1_input is read
NextRpm ==
    \E t \in Callers :
        \/ fan_read(t)
        \/ read_rpm_lock(t)
        \/ port_access(t)
        \/ read_rpm_unlock(t)

\* read_rpm as a function of the bytes the tachometer presents
SpecRpm == InitRpm /\ [][NextRpm]_vars

\* what the application of scale_pwm leaves alone
ScaleFrame ==
    UNCHANGED << fan_data, ec_lock, ec, dev, pc, op, loc, ret, run,
                 bus, session, hist >>

\* scale_pwm is applied to the first argument
ScaleA ==
    /\ sc.ra = -1
    /\ sc' = [sc EXCEPT !.ra = scale_pwm(sc.a)]
    /\ ScaleFrame

\* scale_pwm is applied to the second argument
ScaleB ==
    /\ sc.rb = -1
    /\ sc' = [sc EXCEPT !.rb = scale_pwm(sc.b)]
    /\ ScaleFrame

NextScale == ScaleA \/ ScaleB

\* scale_pwm as a function of its argument
SpecScale == InitScale /\ [][NextScale]_vars

(* ------------------------------- claims ------------------------------- *)

\* the cached state and the EC registers agree
Agree ==
    /\ ~fan_data.manual_mode => ec.ram[REG_MANUAL_ENABLE] = 0
    /\ fan_data.manual_mode =>
         /\ ec.ram[REG_MANUAL_ENABLE] = 1
         /\ ec.ram[REG_PWM] = scale_pwm(fan_data.pwm_value)

\* C1 (SpecPorts): the port accesses of two EC register sequences never
\* interleave.  A thread inside ec_read or ec_write holds ec_lock, a
\* thread that has made some but not all accesses of its sequence is the
\* one whose sequence is in progress on the bus, at the same position, and
\* a sequence in progress on the bus is the sequence its thread is making.
C1_SequencesDoNotInterleave ==
    \A t \in Threads :
        /\ pc[t] \in EcLabels => ec_lock = t
        /\ loc[t].k > 0 => bus = [who |-> t, k |-> loc[t].k]
        /\ bus.k > 0 => loc[bus.who].k = bus.k

\* a thread is in the middle of a port sequence while another one waits
\* for ec_lock
C1_Witness ==
    \E t \in Threads, u \in Threads :
        /\ t # u
        /\ loc[t].k = 6
        /\ pc[u] \in {"sfs_lock", "sa_lock", "rr_lock"}

\* C2 (SpecSerial): when calls are issued one at a time to a device that
\* was attached with manual-enable at 0, after every completed call the
\* cached state and the hardware agree: Auto means
\* manual-enable is 0, Manual means manual-enable is 1 and the PWM
\* register is scale_pwm(pwm_value).
C2_SerialAgreement ==
    (Registered /\ session.manual0 = 0 /\ Quiescent) => Agree

\* a pwm1 write has returned in Manual with a duty that is not the default
C2_Witness ==
    /\ Registered /\ session.manual0 = 0 /\ Quiescent
    /\ ret.fn = "fan_write" /\ ret.attr = "pwm_input" /\ ret.rc = 0
    /\ fan_data.manual_mode
    /\ fan_data.pwm_value = 128
    /\ ec.ram[REG_PWM] = scale_pwm(128)

\* C3 (Spec), as claimed: a fan_read of pwm1_enable or pwm1 never returns
\* a mode or duty that disagrees with the EC registers at the moment it
\* returns.
C3_ReadsAgreeWithHardware ==
    /\ (ret.fn = "fan_read" /\ ret.attr = "pwm_enable" /\ ret.val = 1) =>
         /\ ec.ram[REG_MANUAL_ENABLE] = 1
         /\ ec.ram[REG_PWM] = scale_pwm(fan_data.pwm_value)
    /\ (ret.fn = "fan_read" /\ ret.attr = "pwm_enable" /\ ret.val = 0) =>
         ec.ram[REG_MANUAL_ENABLE] = 0
    /\ (ret.fn = "fan_read" /\ ret.attr = "pwm_input" /\ ret.val > 0) =>
         /\ ec.ram[REG_MANUAL_ENABLE] = 1
         /\ ec.ram[REG_PWM] = scale_pwm(ret.val)

\* C4 (Spec): gpd_remove always writes 0 to the manual-enable register and
\* leaves mode Auto.  When gpd_remove is about to release ec_lock the
\* register is 0, when it returns manual_mode is false, and the device
\* becomes removed only by that return.
C4_RemoveForcesAuto ==
    /\ [](/\ (op[Core].fn = "gpd_remove" /\ pc[Core] = "sa_unlock") =>
               ec.ram[REG_MANUAL_ENABLE] = 0
          /\ ret.fn = "gpd_remove" => ~fan_data.manual_mode)
    /\ [][(dev # "removed" /\ dev' = "removed") =>
            /\ pc[Core] = "sa_store"
            /\ ret'.fn = "gpd_remove"
            /\ ~fan_data'.manual_mode]_vars

\* gpd_remove has written the register while the mode was still Manual
C4_Witness ==
    /\ op[Core].fn = "gpd_remove"
    /\ pc[Core] = "sa_unlock"
    /\ fan_data.manual_mode
    /\ ec.ram[REG_MANUAL_ENABLE] = 0

\* C5 (Spec), as claimed: once gpd_remove and the fan_write calls that were
\* in progress when it started have all returned, the manual-enable
\* register is 0 and mode is Auto.
C5_TeardownIsFinal ==
    (dev = "removed" /\ Quiescent /\ ~session.late) =>
        /\ ec.ram[REG_MANUAL_ENABLE] = 0
        /\ ~fan_data.manual_mode

\* C6 (SpecScale): scale_pwm(0) = 1, scale_pwm(255) = 184, and scale_pwm
\* is monotonically non-decreasing over 0..255.
C6_ScaleBoundsAndMonotone ==
    /\ (sc.ra # -1 /\ sc.a = 0) => sc.ra = 1
    /\ (sc.ra # -1 /\ sc.a = 255) => sc.ra = 184
    /\ (sc.ra # -1 /\ sc.rb # -1 /\ sc.a <= sc.b) => sc.ra <= sc.rb

\* scale_pwm has been applied to 0 and to 255
C6_Witness ==
    /\ sc.a = 0 /\ sc.ra = 1
    /\ sc.b = 255 /\ sc.rb = 184

\* C7 (Spec): every byte the driver stores into the PWM register is in
\* 1..184.
C7_PwmWritesInRange ==
    ec.last_pwm # -1 => ec.last_pwm \in 1 .. 184

\* the smallest and the largest byte have been stored
C7_Witness ==
    /\ ec.last_pwm = 1
    /\ \E t \in Threads : pc[t] = "sfs_pwm" /\ loc[t].scaled = 184

\* a fan_write with this attribute and value is invalid
InvalidWrite(attr, val) ==
    \/ attr = "pwm_enable" /\ val \notin {0, 1}
    \/ attr = "pwm_input" /\ val \notin 0 .. 255

\* C8 (Spec): a fan_write with an invalid value returns -EINVAL and
\* changes nothing: fan_data, the EC and the lock are as before and no port
\* access is made; no thread is past the range checks with an invalid
\* value.
C8_InvalidWriteNoEffect ==
    /\ [](\A t \in Threads :
            op[t].fn = "fan_write" => ~InvalidWrite(op[t].attr, op[t].val))
    /\ [][(ret'.fn = "fan_write" /\ InvalidWrite(ret'.attr, ret'.arg)) =>
            /\ ret'.rc = -EINVAL
            /\ UNCHANGED << fan_data, ec, ec_lock, bus, pc >>]_vars

\* an out-of-range duty has been refused in Manual
C8_Witness ==
    /\ ret.fn = "fan_write" /\ ret.attr = "pwm_input" /\ ret.arg = 256
    /\ ret.rc = -EINVAL
    /\ fan_data.manual_mode

\* C9 (Spec): at every attach, also one that follows a detach of a
\* device whose duty had been changed, the fan control state is
\* {pwm_value = 255, manual_mode = false}.
C9_AttachStartsFromDefault ==
    ret.fn = "gpd_probe" =>
        fan_data = [pwm_value |-> 255, manual_mode |-> FALSE]

\* the device is attached again after the duty 128 had been applied
C9_Witness ==
    /\ ret.fn = "gpd_probe"
    /\ ec.last_pwm = scale_pwm(128)

\* the two writes w1, w2 enter Manual with duty d, in either order
EntersManual(w1, w2, d) ==
    \/ /\ w1 = [attr |-> "pwm_input", val |-> d]
       /\ w2 = [attr |-> "pwm_enable", val |-> 1]
    \/ /\ w1 = [attr |-> "pwm_enable", val |-> 1]
       /\ w2 = [attr |-> "pwm_input", val |-> d]

\* C10 (SpecSerial): for every duty d, when a pwm1 write of d and a
\* pwm1_enable write of 1 have been made one after the other, in either
\* order, the mode report is 1, the pwm1 report is d and the last byte
\* stored into the PWM register is scale_pwm(d); a fan_read returns
\* exactly these reports.
C10_ManualEntry ==
    /\ [](/\ (ret.fn = "fan_read" /\ ret.attr = "pwm_enable") =>
               ret.val = current_mode_report
          /\ (ret.fn = "fan_read" /\ ret.attr = "pwm_input") =>
               ret.val = current_pwm_report)
    /\ [][(hist # << >> /\ ret'.fn = "fan_write" /\ ret'.rc = 0) =>
            LET w1 == hist[1]
                w2 == [attr |-> ret'.attr, val |-> ret'.arg]
                d == IF w1.attr = "pwm_input" THEN w1.val ELSE w2.val
            IN (d \in 0 .. 255 /\ EntersManual(w1, w2, d)) =>
                   /\ current_mode_report' = 1
                   /\ current_pwm_report' = d
                   /\ ec'.last_pwm = scale_pwm(d)]_vars

\* pwm1_enable = 1 has returned after a pwm1 write of 128
C10_Witness ==
    /\ ret.fn = "fan_write" /\ ret.attr = "pwm_enable" /\ ret.arg = 1
    /\ ret.rc = 0
    /\ fan_data.pwm_value = 128
    /\ ec.last_pwm = scale_pwm(128)

\* the call that returned in the step just taken is a fan_write of val to
\* the attribute attr
WriteReturned(attr, val) ==
    ret.fn = "fan_write" /\ ret.attr = attr /\ ret.arg = val

\* what set_fan_speed(d) does with ec_lock and the EC
ManualLog(d) ==
    << LockMark, Access("out", REG_PWM, scale_pwm(d)),
       Access("out", REG_MANUAL_ENABLE, 1), UnlockMark >>

\* what set_auto_mode does with ec_lock and the EC
AutoLog == << LockMark, Access("out", REG_MANUAL_ENABLE, 0), UnlockMark >>

\* C11 (SpecSerial): for every duty d, a pwm1_enable write of 0 made in
\* Manual with pwm_value = d succeeds and leaves pwm_value = d, while the
\* mode report and the pwm1 report become 0.
C11_SetAutoKeepsDuty ==
    (WriteReturned("pwm_enable", 0) /\ ret.old.fan_data.manual_mode) =>
        /\ ret.rc = 0
        /\ fan_data.pwm_value = ret.old.fan_data.pwm_value
        /\ current_mode_report = 0
        /\ current_pwm_report = 0

\* pwm1_enable = 0 has returned; it was written in Manual with duty 128
C11_Witness ==
    /\ WriteReturned("pwm_enable", 0)
    /\ ret.old.fan_data = [pwm_value |-> 128, manual_mode |-> TRUE]
    /\ ret.old.ram[REG_PWM] = scale_pwm(128)
    /\ fan_data.pwm_value = 128

\* C12 (SpecSerial): a duty written in Auto is cached.  For every v in
\* 0..255, after a pwm1 write of v made in Auto the mode report and the
\* pwm1 report are still 0 and pwm_value is v; and a pwm1_enable write of
\* 1 made in Auto after v was the last duty written stores scale_pwm(v)
\* into the PWM register and then 1 into manual-enable.
C12_DutyCachedInAuto ==
    /\ (ret.fn = "fan_write" /\ ret.attr = "pwm_input"
          /\ ret.arg \in 0 .. 255 /\ ~ret.old.fan_data.manual_mode) =>
            /\ ret.rc = 0
            /\ fan_data.pwm_value = ret.arg
            /\ current_mode_report = 0
            /\ current_pwm_report = 0
    /\ (WriteReturned("pwm_enable", 1) /\ ~ret.old.fan_data.manual_mode
          /\ session.duty # -1) =>
            /\ ret.rc = 0
            /\ ret.log = ManualLog(session.duty)
            /\ ec.ram[REG_PWM] = scale_pwm(session.duty)

\* pwm1_enable = 1 has returned; it was written in Auto after the duty
\* 128, which had not been applied to the hardware before
C12_Witness ==
    /\ WriteReturned("pwm_enable", 1)
    /\ ret.old.fan_data = [pwm_value |-> 128, manual_mode |-> FALSE]
    /\ ret.old.ram[REG_PWM] # scale_pwm(128)
    /\ session.duty = 128
    /\ ec.ram[REG_PWM] = scale_pwm(128)

\* the entries of a log that read the register reg
ReadsOf(log, reg) ==
    {i \in 1 .. Len(log) : log[i].dir = "in" /\ log[i].reg = reg}

\* C13 (SpecRpm): a read of fan1_input succeeds in Auto and in Manual;
\* it takes ec_lock, reads RPM-high and RPM-low from the EC in this very
\* call, releases ec_lock, and returns (high << 8) | low for whatever
\* bytes h, l the two reads returned; fan_data and the PWM and
\* manual-enable registers are as they were when it was called.
C13_ReadRpm ==
    (ret.fn = "fan_read" /\ ret.attr = "fan_input") =>
        /\ ret.rc = 0
        /\ Len(ret.log) = 4
        /\ ret.log[1] = LockMark /\ ret.log[4] = UnlockMark
        /\ \E i \in ReadsOf(ret.log, REG_RPM_HIGH),
              j \in ReadsOf(ret.log, REG_RPM_LOW) :
                /\ {i, j} = {2, 3}
                /\ ret.val = ret.log[i].v * 256 + ret.log[j].v
        /\ fan_data = ret.old.fan_data
        /\ ec.ram = ret.old.ram

\* in Manual, the tachometer presented 0x12 and 0x34 and the read
\* returned 0x1234
C13_Witness ==
    /\ ret.fn = "fan_read" /\ ret.attr = "fan_input"
    /\ fan_data.manual_mode
    /\ Access("in", REG_RPM_HIGH, 18) \in {ret.log[i] : i \in 1 .. Len(ret.log)}
    /\ Access("in", REG_RPM_LOW, 52) \in {ret.log[i] : i \in 1 .. Len(ret.log)}
    /\ ret.val = 4660

\* C14 (Spec), as claimed: with concurrent fan_write callers, whenever
\* every call that was started has returned, the cached state and the
\* hardware agree: Auto means manual-enable is 0, Manual means
\* manual-enable is 1 and the PWM register is scale_pwm(pwm_value).
C14_QuiescentAgreement ==
    (dev = "bound" /\ session.manual0 = 0 /\ Quiescent) => Agree

\* thread t completes a write of 1 to the manual-enable register in this
\* step
WritesManualEnable(t) ==
    loc'[t].log = Append(loc[t].log, Access("out", REG_MANUAL_ENABLE, 1))

\* C15 (SpecPorts): every write of 1 to the manual-enable register is
\* preceded, in the same critical section of ec_lock and with no other
\* register write in between, by the write of scale_pwm(duty) to the PWM
\* register: the thread holds ec_lock, the last two things it did were to
\* take ec_lock and to write the PWM register, and the register still
\* holds that byte.  So whenever the manual-enable register is 1 the PWM
\* register holds a byte the driver stored.
C15_DutyBeforeManualEnable ==
    /\ [](ec.ram[REG_MANUAL_ENABLE] = 1 =>
            /\ ec.last_pwm # -1
            /\ ec.ram[REG_PWM] = ec.last_pwm)
    /\ [][\A t \in Threads :
            WritesManualEnable(t) =>
                LET n == Len(loc[t].log)
                    w == Access("out", REG_PWM, scale_pwm(loc[t].pwm_255))
                IN /\ ec_lock = t
                   /\ n = 2
                   /\ loc[t].log[1] = LockMark
                   /\ loc[t].log[2] = w
                   /\ ec.ram[REG_PWM] = w.v
                   /\ \A u \in Threads \ {t} : pc[u] \notin EcLabels]_vars

\* a thread has just written 1 to manual-enable after the duty 128, while
\* another thread waits for ec_lock
C15_Witness ==
    \E t \in Threads, u \in Threads :
        /\ pc[t] = "sfs_unlock"
        /\ loc[t].log = << LockMark, Access("out", REG_PWM, scale_pwm(128)),
                           Access("out", REG_MANUAL_ENABLE, 1) >>
        /\ ec.ram[REG_MANUAL_ENABLE] = 1
        /\ pc[u] \in {"sfs_lock", "sa_lock", "rr_lock"}

\* C16 (SpecSerial): a valid pwm1 write made in Auto only updates
\* pwm_value: it returns 0 without taking ec_lock and without any EC
\* register access, mode is still Auto, and the PWM and manual-enable
\* registers are as they were.
C16_AutoDutyWriteTouchesNoHardware ==
    (ret.fn = "fan_write" /\ ret.attr = "pwm_input"
      /\ ret.arg \in 0 .. 255 /\ ~ret.old.fan_data.manual_mode) =>
        /\ ret.rc = 0
        /\ ret.log = << >>
        /\ fan_data = [pwm_value |-> ret.arg, manual_mode |-> FALSE]
        /\ ec.ram = ret.old.ram
        /\ ec_lock = Unlocked

\* the duty 128 has been written in Auto over the default duty
C16_Witness ==
    /\ WriteReturned("pwm_input", 128)
    /\ ret.old.fan_data = fan_data_init
    /\ fan_data.pwm_value = 128
    /\ ec.last_pwm = -1

\* C17 (SpecSerial): mode writes are idempotent on the state and are
\* never a no-op on the hardware.  A pwm1_enable write of 1 made in
\* Manual leaves fan_data as it was and writes scale_pwm(pwm_value) to
\* the PWM register and 1 to manual-enable again; a pwm1_enable write of
\* 0 made in Auto leaves fan_data as it was and writes 0 to manual-enable
\* again, whatever the registers held.
C17_ModeWritesReissued ==
    /\ (WriteReturned("pwm_enable", 1) /\ ret.old.fan_data.manual_mode) =>
            /\ ret.rc = 0
            /\ fan_data = ret.old.fan_data
            /\ ret.log = ManualLog(fan_data.pwm_value)
            /\ ec.ram[REG_PWM] = scale_pwm(fan_data.pwm_value)
            /\ ec.ram[REG_MANUAL_ENABLE] = 1
    /\ (WriteReturned("pwm_enable", 0) /\ ~ret.old.fan_data.manual_mode) =>
            /\ ret.rc = 0
            /\ fan_data = ret.old.fan_data
            /\ ret.log = AutoLog
            /\ ec.ram[REG_MANUAL_ENABLE] = 0

\* pwm1_enable = 1 has returned; it was written in Manual with duty 128
C17_Witness ==
    /\ WriteReturned("pwm_enable", 1)
    /\ ret.old.fan_data = [pwm_value |-> 128, manual_mode |-> TRUE]
    /\ ret.log = ManualLog(128)

\* pwm1_enable = 0 has returned; it was written in Auto while the
\* manual-enable register was 1
C17_WitnessAuto ==
    /\ WriteReturned("pwm_enable", 0)
    /\ ~ret.old.fan_data.manual_mode
    /\ ret.old.ram[REG_MANUAL_ENABLE] = 1
    /\ ec.ram[REG_MANUAL_ENABLE] = 0

\* entry e of a log is a register access
IsAccess(e) == e.dir \in {"in", "out"}

\* C18 (Spec), as claimed: no call holds ec_lock across more than one EC
\* register access: in what a thread did in a call, two register accesses
\* never follow one another without ec_lock being released and taken
\* again in between.
C18_OneAccessPerCriticalSection ==
    \A t \in Threads :
        \A i \in 1 .. Len(loc[t].log) - 1 :
            ~(IsAccess(loc[t].log[i]) /\ IsAccess(loc[t].log[i + 1]))

\* labels at which a thread is between the two register accesses of
\* read_rpm or of set_fan_speed
BetweenAccesses == {"rr_lo2", "rr_hi2", "sfs_en"}

\* C18 amended (Spec): a call takes ec_lock at most once and holds it
\* across all its register accesses.  Between the two reads of read_rpm
\* and between the two writes of set_fan_speed the thread holds ec_lock
\* and no other thread is inside a register access; what a returned call
\* did is nothing, or lock, the one write of set_auto_mode, unlock, or
\* lock, the two accesses of read_rpm or set_fan_speed, unlock.
C18_OneCriticalSectionPerCall ==
    /\ \A t \in Threads :
            pc[t] \in BetweenAccesses =>
                /\ ec_lock = t
                /\ Len(loc[t].log) = 2
                /\ loc[t].log[1] = LockMark
                /\ IsAccess(loc[t].log[2])
                /\ \A u \in Threads \ {t} : pc[u] \notin EcLabels
    /\ ret.fn # "none" =>
            \/ ret.log = << >>
            \/ ret.log = AutoLog
            \/ /\ Len(ret.log) = 4
               /\ ret.log[1] = LockMark
               /\ IsAccess(ret.log[2]) /\ IsAccess(ret.log[3])
               /\ ret.log[4] = UnlockMark
    /\ (ret.fn = "fan_read" /\ ret.attr = "fan_input") => Len(ret.log) = 4
    /\ WriteReturned("pwm_enable", 1) => Len(ret.log) = 4

\* a thread is between the two reads of read_rpm while another thread
\* waits for ec_lock in set_fan_speed
C18_Witness ==
    \E t \in Threads, u \in Threads :
        /\ pc[t] \in {"rr_lo2", "rr_hi2"}
        /\ ec_lock = t
        /\ pc[u] = "sfs_lock"

\* labels at which a thread is about to take ec_lock
LockLabels == {"rr_lock", "sfs_lock", "sa_lock"}

\* some thread inside a call is not waiting for ec_lock, or ec_lock is
\* free for one that is
SomeCallCanStep ==
    \E t \in Threads :
        /\ pc[t] # "idle"
        /\ pc[t] \in LockLabels => ec_lock = Unlocked

\* C19 (SpecFair): under fair scheduling of concurrent callers every
\* fan_read, fan_write or gpd_remove that was started returns; while a
\* call is in progress some thread inside a call can take a step (no
\* deadlock); a call that returns does not hold ec_lock, and ec_lock
\* is free whenever no call is in progress.
C19_CallsTerminate ==
    /\ [](Quiescent => ec_lock = Unlocked)
    /\ [](ret.fn \in {"fan_read", "fan_write", "gpd_remove"} =>
            ec_lock # ret.who)
    /\ [](~Quiescent => SomeCallCanStep)
    /\ \A t \in Threads : (pc[t] # "idle") ~> (pc[t] = "idle")

\* a thread waits for ec_lock while another thread holds it and a third
\* call is in progress
C19_Witness ==
    \E t \in Threads, u \in Threads :
        /\ t # u
        /\ pc[t] \in {"sfs_lock", "sa_lock", "rr_lock"}
        /\ ec_lock = u
        /\ \A v \in Threads : pc[v] # "idle"

\* C20 (Spec), as claimed: a pwm1_enable write never changes pwm_value,
\* also when it overlaps a pwm1 write: once a pwm1 write of v was
\* accepted and every call that was started has returned, pwm_value is v
\* (every accepted pwm1 write of a run writes the same v).
C20_EnableKeepsNewerDuty ==
    (dev = "bound" /\ Quiescent /\ session.duty # -1) =>
        fan_data.pwm_value = session.duty

====
